---- MODULE Spec2Model ----
(***************************************************************************)
(* A model of vcbot's blueprint core (src/main.py): parseBlueprint,        *)
(* getstats, render/saveImage, LogicIcons, and the two bot commands        *)
(* (stats, image) that call them from the asyncio event loop.              *)
(*                                                                         *)
(* Texts are sequences of one-character strings, byte buffers are          *)
(* sequences of integers 0..255.  Python integers are unbounded; TLC's are *)
(* 32 bit, so the inputs keep every decoded field small enough that no     *)
(* product of the model overflows.                                         *)
(***************************************************************************)
EXTENDS Integers, Sequences, FiniteSets, TLC

Min(S) == CHOOSE x \in S : \A y \in S : x <= y
Max(S) == CHOOSE x \in S : \A y \in S : x >= y

(***************************************************************************)
(* Text: str.replace, str.startswith, base64.b64decode                     *)
(***************************************************************************)
B64Alphabet ==
  << "A","B","C","D","E","F","G","H","I","J","K","L","M","N","O","P",
     "Q","R","S","T","U","V","W","X","Y","Z","a","b","c","d","e","f",
     "g","h","i","j","k","l","m","n","o","p","q","r","s","t","u","v",
     "w","x","y","z","0","1","2","3","4","5","6","7","8","9","+","/" >>

B64Chars == { B64Alphabet[i] : i \in 1..64 }

B64Index == [ c \in B64Chars |-> (CHOOSE i \in 1..64 : B64Alphabet[i] = c) - 1 ]

\* A character outside ASCII (str.encode("ascii") rejects it).
NonAscii == "U+00E9"

\* The backtick and the apostrophe, which a TLA+ string cannot hold.
Backtick == "backtick"
Apostrophe == "apostrophe"

IsB64(c) == c \in B64Chars
NotApostrophe(c) == c # Apostrophe
NotDeleted(c) == c # ""

\* Number of consecutive backticks ending at position i / starting at i.
BackRun(s, i) == i - Max({0} \cup { j \in 1..i : s[j] # Backtick })
FwdRun(s, i) == Min({Len(s) + 1} \cup { j \in i..Len(s) : s[j] # Backtick }) - i

\* blueprint.replace(three backticks, ""): every non-overlapping triple of backticks,
\* found left to right, is removed; a run of L backticks keeps its last
\* L mod 3.
RemoveFences(s) ==
  SelectSeq([ i \in 1..Len(s) |->
                IF s[i] = Backtick
                   /\ BackRun(s, i) - 1 < 3 * ((BackRun(s, i) + FwdRun(s, i) - 1) \div 3)
                THEN "" ELSE s[i] ],
            NotDeleted)

\* blueprint.replace(apostrophe, "")
RemoveApostrophes(s) == SelectSeq(s, NotApostrophe)

StartsWith(s, p) == Len(s) >= Len(p) /\ SubSeq(s, 1, Len(p)) = p

PrefixVCB == << "V", "C", "B", "+" >>
PrefixBVCB == << "b", "V", "C", "B", "+" >>

\* s[n:]
DropFirst(s, n) == SubSeq(s, n + 1, Len(s))

\* binascii.a2b_base64 in its default, non-strict mode.  Characters outside
\* the alphabet are skipped.  A "=" met with 2 or 3 characters of the current
\* quad read counts as padding, and the padding that completes the quad ends
\* the decoding (what follows is ignored).  Input that ends inside a quad
\* without that padding is an error.
B64DataBefore(s, p) == SelectSeq(SubSeq(s, 1, p - 1), IsB64)

B64LastData(s, p) == Max({0} \cup { j \in 1..(p - 1) : IsB64(s[j]) })

B64Pads(s, p) == Cardinality({ j \in (B64LastData(s, p) + 1)..p : s[j] = "=" })

B64StopsAt(s, p) ==
  /\ s[p] = "="
  /\ LET q == Len(B64DataBefore(s, p)) % 4
     IN  q >= 2 /\ q + B64Pads(s, p) >= 4

B64Stop(s) == Min({Len(s) + 1} \cup { p \in 1..Len(s) : B64StopsAt(s, p) })

B64Byte(d, k) ==
  LET g  == 4 * (k \div 3)
      c0 == B64Index[d[g + 1]]
      c1 == B64Index[d[g + 2]]
  IN  CASE k % 3 = 0 -> c0 * 4 + (c1 \div 16)
        [] k % 3 = 1 -> (c1 % 16) * 16 + (B64Index[d[g + 3]] \div 4)
        [] OTHER     -> (B64Index[d[g + 3]] % 4) * 64 + B64Index[d[g + 4]]

\* base64.b64decode(s): [ok, bytes]; ok = FALSE stands for the exception
\* (ValueError for a non-ASCII string, binascii.Error otherwise).
b64decode(s) ==
  IF \E i \in 1..Len(s) : s[i] = NonAscii
  THEN [ok |-> FALSE, bytes |-> << >>]
  ELSE LET stop == B64Stop(s)
           d    == B64DataBefore(s, stop)
           r    == Len(d) % 4
           n    == 3 * (Len(d) \div 4) + (CASE r = 2 -> 1 [] r = 3 -> 2 [] OTHER -> 0)
       IN  IF stop = Len(s) + 1 /\ r # 0
           THEN [ok |-> FALSE, bytes |-> << >>]
           ELSE [ok |-> TRUE, bytes |-> [ k \in 1..n |-> B64Byte(d, k - 1) ]]

(***************************************************************************)
(* Bytes: slices, int.from_bytes, zstd.uncompress                          *)
(***************************************************************************)
\* b[lo:hi] (0-based, half open, clipped to the buffer as Python clips it)
Slice(b, lo, hi) == SubSeq(b, lo + 1, Min({hi, Len(b)}))

\* int.from_bytes(b, "big"); the empty slice is 0
RECURSIVE IntFromBytes(_)
IntFromBytes(b) ==
  IF b = << >> THEN 0
  ELSE 256 * IntFromBytes(SubSeq(b, 1, Len(b) - 1)) + b[Len(b)]

\* First byte of a compressed frame (0x28, the first byte of zstd's magic).
ZMagic == 40

\* zstd.uncompress(payload), an external codec: here a frame is the magic
\* byte followed by the stored data; anything else does not decompress.
\* [ok, data]; ok = FALSE stands for the codec's exception.
uncompress(p) ==
  IF Len(p) >= 1 /\ p[1] = ZMagic
  THEN [ok |-> TRUE, data |-> Tail(p)]
  ELSE [ok |-> FALSE, data |-> << >>]

(***************************************************************************)
(* Values: None, exceptions                                                *)
(***************************************************************************)
\* A Python value that is None or a bytes object.
None == [none |-> TRUE, data |-> << >>]
Bytes(d) == [none |-> FALSE, data |-> d]

\* An exception: its class, its message and the number the message ends with.
NoExc == [kind |-> "", text |-> "", arg |-> 0]
Exc(kind, text, arg) == [kind |-> kind, text |-> text, arg |-> arg]
InvalidBlueprintException(text, arg) == Exc("InvalidBlueprintException", text, arg)

(***************************************************************************)
(* parseBlueprint                                                          *)
(***************************************************************************)
HeaderSize == 17
MinBlockSize == 12

\* Lines 149-157: the fences and apostrophes are removed, the prefix is
\* checked and stripped.  [exc, rest]
ParsePrefix(text) ==
  LET s  == RemoveApostrophes(RemoveFences(text))
      s1 == IF StartsWith(s, PrefixVCB) THEN DropFirst(s, 4) ELSE s
      s2 == IF StartsWith(s1, PrefixBVCB) THEN DropFirst(s1, 5) ELSE s1
  IN  IF ~StartsWith(s, PrefixVCB) /\ ~StartsWith(s, PrefixBVCB)
      THEN [exc |-> InvalidBlueprintException("Invalid vcb blueprint - header error", 0),
            rest |-> << >>]
      ELSE [exc |-> NoExc, rest |-> s2]

NoLocals ==
  [blueprint |-> << >>, version |-> 0, checksum |-> << >>, width |-> 0,
   height |-> 0, curpos |-> 0, image |-> None]

\* parseBlueprint with the zero-area check of line 171 ahead of the version
\* check of line 169.
ParseHeaderAreaFirst(rest) ==
  LET dec      == b64decode(rest)
      b        == dec.bytes
      version  == IntFromBytes(Slice(b, 0, 3))
      checksum == Slice(b, 3, 9)
      width    == IntFromBytes(Slice(b, 9, 13))
      height   == IntFromBytes(Slice(b, 13, 17))
  IN  IF ~dec.ok
      THEN [exc |-> InvalidBlueprintException("Invalid vcb blueprint - base64 error", 0),
            locals |-> NoLocals]
      ELSE IF width * height = 0
      THEN [exc |-> InvalidBlueprintException("Invalid vcb blueprint - blueprint is 0x0", 0),
            locals |-> NoLocals]
      ELSE IF version # 0
      THEN [exc |-> InvalidBlueprintException(
                      "Invalid vcb blueprint - unexpected version number: ", version),
            locals |-> NoLocals]
      ELSE [exc |-> NoExc,
            locals |-> [blueprint |-> b, version |-> version, checksum |-> checksum,
                        width |-> width, height |-> height,
                        curpos |-> 17, image |-> None]]

\* Lines 159-174: base64, the header fields, the version and area checks.
\* [exc, locals]
ParseHeader(rest) ==
  LET dec      == b64decode(rest)
      b        == dec.bytes
      version  == IntFromBytes(Slice(b, 0, 3))
      checksum == Slice(b, 3, 9)
      width    == IntFromBytes(Slice(b, 9, 13))
      height   == IntFromBytes(Slice(b, 13, 17))
  IN  IF ~dec.ok
      THEN [exc |-> InvalidBlueprintException("Invalid vcb blueprint - base64 error", 0),
            locals |-> NoLocals]
      ELSE IF version # 0
      THEN [exc |-> InvalidBlueprintException(
                      "Invalid vcb blueprint - unexpected version number: ", version),
            locals |-> NoLocals]
      ELSE IF width * height = 0
      THEN [exc |-> InvalidBlueprintException("Invalid vcb blueprint - blueprint is 0x0", 0),
            locals |-> NoLocals]
      ELSE [exc |-> NoExc,
            locals |-> [blueprint |-> b, version |-> version, checksum |-> checksum,
                        width |-> width, height |-> height,
                        curpos |-> HeaderSize, image |-> None]]

\* The check of line 180 without its bound: only a negative size is refused.
BlockNegative(blockSize) == blockSize < 0

\* Line 180
BlockTooSmall(blockSize) == blockSize < MinBlockSize

\* Lines 189-190: the decompressed data is measured against the block's
\* declared image size.
ImageSizeOk(data, imageSize) == Len(data) = imageSize

\* Exceptions of lines 187 and 190
ZstdError == Exc("Exception", "Invalid vcb blueprint - zstd error", 0)
ImageSizeError(imageSize) ==
  Exc("Exception", "Invalid vcb blueprint - unexpected image size: ", imageSize)

\* Lines 177-192: one iteration of the block loop.  [exc, curpos, image]
ParseBlock(blueprint, curpos, image) ==
  LET blockSize == IntFromBytes(Slice(blueprint, curpos, curpos + 4))
      layerID   == IntFromBytes(Slice(blueprint, curpos + 4, curpos + 8))
      imageSize == IntFromBytes(Slice(blueprint, curpos + 8, curpos + 12))
      z         == uncompress(Slice(blueprint, curpos + 12, curpos + blockSize))
  IN  IF BlockTooSmall(blockSize)
      THEN [exc |-> InvalidBlueprintException(
                      "Invalid vcb blueprint - invalid layer block size: ", blockSize),
            curpos |-> curpos, image |-> image]
      ELSE IF layerID # 0
      THEN [exc |-> NoExc, curpos |-> curpos + blockSize, image |-> image]
      ELSE IF ~z.ok
      THEN [exc |-> ZstdError, curpos |-> curpos, image |-> image]
      ELSE IF ~ImageSizeOk(z.data, imageSize)
      THEN [exc |-> ImageSizeError(imageSize), curpos |-> curpos, image |-> Bytes(z.data)]
      ELSE [exc |-> NoExc, curpos |-> curpos + blockSize, image |-> Bytes(z.data)]

\* Line 176
MoreBlocks(l) == l.curpos < Len(l.blueprint)

\* No Blueprint object yet
NoBlueprint ==
  [made |-> FALSE, version |-> 0, checksum |-> << >>, width |-> 0, height |-> 0,
   logicImage |-> None]

\* Lines 195-201
MakeBlueprint(l) ==
  [made |-> TRUE, version |-> l.version, checksum |-> l.checksum, width |-> l.width,
   height |-> l.height, logicImage |-> l.image]

(***************************************************************************)
(* getstats                                                                *)
(***************************************************************************)
\* The countMessage calls of lines 239-286, in their order.
CountTable ==
  << [name |-> "Cross", rgba |-> <<102, 120, 142, 255>>], [name |-> "Tunnel", rgba |-> <<83, 85, 114, 255>>],
     [name |-> "Mesh", rgba |-> <<100, 106, 87, 255>>], [name |-> "Bus1", rgba |-> <<122, 47, 36, 255>>],
     [name |-> "Bus2", rgba |-> <<62, 122, 36, 255>>], [name |-> "Bus3", rgba |-> <<36, 65, 122, 255>>],
     [name |-> "Bus4", rgba |-> <<37, 98, 122, 255>>], [name |-> "Bus5", rgba |-> <<122, 45, 102, 255>>],
     [name |-> "Bus6", rgba |-> <<122, 112, 36, 255>>], [name |-> "Write", rgba |-> <<77, 56, 62, 255>>],
     [name |-> "Read", rgba |-> <<46, 71, 93, 255>>], [name |-> "Trace1", rgba |-> <<42, 53, 65, 255>>],
     [name |-> "Trace2", rgba |-> <<159, 168, 174, 255>>], [name |-> "Trace3", rgba |-> <<161, 85, 94, 255>>],
     [name |-> "Trace4", rgba |-> <<161, 108, 86, 255>>], [name |-> "Trace5", rgba |-> <<161, 133, 86, 255>>],
     [name |-> "Trace6", rgba |-> <<161, 152, 86, 255>>], [name |-> "Trace7", rgba |-> <<153, 161, 86, 255>>],
     [name |-> "Trace8", rgba |-> <<136, 161, 86, 255>>], [name |-> "Trace9", rgba |-> <<108, 161, 86, 255>>],
     [name |-> "Trace10", rgba |-> <<86, 161, 141, 255>>], [name |-> "Trace11", rgba |-> <<86, 147, 161, 255>>],
     [name |-> "Trace12", rgba |-> <<86, 123, 161, 255>>], [name |-> "Trace13", rgba |-> <<86, 98, 161, 255>>],
     [name |-> "Trace14", rgba |-> <<102, 86, 161, 255>>], [name |-> "Trace15", rgba |-> <<135, 86, 161, 255>>],
     [name |-> "Trace16", rgba |-> <<161, 85, 151, 255>>], [name |-> "Buffer", rgba |-> <<146, 255, 99, 255>>],
     [name |-> "And", rgba |-> <<255, 198, 99, 255>>], [name |-> "Or", rgba |-> <<99, 242, 255, 255>>],
     [name |-> "Xor", rgba |-> <<174, 116, 255, 255>>], [name |-> "Not", rgba |-> <<255, 98, 138, 255>>],
     [name |-> "Nand", rgba |-> <<255, 162, 0, 255>>], [name |-> "Nor", rgba |-> <<48, 217, 255, 255>>],
     [name |-> "Xnor", rgba |-> <<166, 0, 255, 255>>], [name |-> "LatchOn", rgba |-> <<99, 255, 159, 255>>],
     [name |-> "LatchOff", rgba |-> <<56, 77, 71, 255>>], [name |-> "Clock", rgba |-> <<255, 0, 65, 255>>],
     [name |-> "LED", rgba |-> <<255, 255, 255, 255>>], [name |-> "Timer", rgba |-> <<255, 103, 0, 255>>],
     [name |-> "Random", rgba |-> <<229, 255, 0, 255>>], [name |-> "Break", rgba |-> <<224, 0, 0, 255>>],
     [name |-> "Wifi0", rgba |-> <<255, 0, 191, 255>>], [name |-> "Wifi1", rgba |-> <<255, 0, 175, 255>>],
     [name |-> "Wifi2", rgba |-> <<255, 0, 159, 255>>], [name |-> "Wifi3", rgba |-> <<255, 0, 143, 255>>],
     [name |-> "Annotation", rgba |-> <<58, 69, 81, 255>>], [name |-> "Filler", rgba |-> <<140, 171, 161, 255>>] >>

\* name.startswith("Bus"), name.startswith("Trace") over the table's names
StartsWithBus(name) == name \in {"Bus1", "Bus2", "Bus3", "Bus4", "Bus5", "Bus6"}
StartsWithTrace(name) ==
  name \in {"Trace1", "Trace2", "Trace3", "Trace4", "Trace5", "Trace6", "Trace7",
            "Trace8", "Trace9", "Trace10", "Trace11", "Trace12", "Trace13",
            "Trace14", "Trace15", "Trace16"}

\* Locals of getstats before the scan (lines 207-209).
NoStats ==
  [i |-> 0, counts |-> << >>, area |-> 0, tracecount |-> 0, buscount |-> 0,
   totalmessage |-> << >>]

\* counts[rgb] = (counts[rgb] if rgb in counts else 0) + 1
Increment(counts, rgb) ==
  IF rgb \in DOMAIN counts
  THEN [counts EXCEPT ![rgb] = @ + 1]
  ELSE [ k \in DOMAIN counts \cup {rgb} |-> IF k = rgb THEN 1 ELSE counts[k] ]

\* Lines 211-214: the body of the scan loop at byte offset i.  [exc, counts, area]
ScanPixel(image, i, counts, area) ==
  IF i + 3 >= Len(image)
  THEN [exc |-> Exc("IndexError", "index out of range", 0),
        counts |-> counts, area |-> area]
  ELSE IF image[i + 4] > 0
  THEN [exc |-> NoExc,
        counts |-> Increment(counts, << image[i + 1], image[i + 2], image[i + 3], image[i + 4] >>),
        area |-> area + 1]
  ELSE [exc |-> NoExc, counts |-> counts, area |-> area]

\* One fragment of the report.
Fragment(tag, name, n, pct, hex) ==
  [tag |-> tag, name |-> name, n |-> n, pct |-> pct, hex |-> hex]

HexDigits == << "0","1","2","3","4","5","6","7","8","9","a","b","c","d","e","f" >>

\* bytes.hex()
Hex(b) ==
  [ k \in 1..(2 * Len(b)) |->
      HexDigits[(IF k % 2 = 1 THEN b[(k + 1) \div 2] \div 16 ELSE b[k \div 2] % 16) + 1] ]

\* Lines 225-226: int(100.0 * n / total + 0.5), in exact arithmetic (the
\* quotient is far from the precision of a double for every count and area
\* the decoder can produce).
percent(n, total) == (200 * n + total) \div (2 * total)

\* Lines 228-237: countMessage(name, counts, rgba) on the accumulated
\* [totalmessage, tracecount, buscount].
countMessage(acc, name, counts, rgba, total) ==
  IF rgba \in DOMAIN counts /\ counts[rgba] > 0
     /\ ~(StartsWithBus(name) \/ StartsWithTrace(name))
  THEN [acc EXCEPT !.totalmessage =
          Append(@, Fragment("pixels", name, counts[rgba], percent(counts[rgba], total), << >>))]
  ELSE IF StartsWithTrace(name) /\ rgba \in DOMAIN counts
  THEN [acc EXCEPT !.tracecount = @ + counts[rgba]]
  ELSE IF StartsWithBus(name) /\ rgba \in DOMAIN counts
  THEN [acc EXCEPT !.buscount = @ + counts[rgba]]
  ELSE acc

\* Lines 239-286: the first k countMessage calls.
RECURSIVE CountMessages(_, _, _, _)
CountMessages(k, acc, counts, total) ==
  IF k = 0 THEN acc
  ELSE countMessage(CountMessages(k - 1, acc, counts, total),
                    CountTable[k].name, counts, CountTable[k].rgba, total)

\* Lines 288-289
TraceLine(tracecount, total) ==
  Fragment("pixels", "Trace", tracecount, percent(tracecount, total), << >>)

\* Lines 290-291
BusLine(buscount, tracecount, total) ==
  Fragment("pixels", "Bus", buscount, percent(tracecount, total), << >>)

\* Line 292
UsedAreaLine(area, total) == Fragment("used", "Used area", area, percent(area, total), << >>)

\* Lines 216-294: the report built from the scan's counts.
BuildReport(bp, s) ==
  LET total == bp.width * bp.height
      head  == << Fragment("fence", "", 0, 0, << >>),
                  Fragment("checksum", "", 0, 0, Hex(bp.checksum)),
                  Fragment("width", "", bp.width, 0, << >>),
                  Fragment("height", "", bp.height, 0, << >>),
                  Fragment("rule", "", 0, 0, << >>) >>
      acc   == CountMessages(Len(CountTable),
                             [totalmessage |-> head, tracecount |-> 0, buscount |-> 0],
                             s.counts, total)
      m1    == IF acc.tracecount > 0
               THEN Append(acc.totalmessage, TraceLine(acc.tracecount, total))
               ELSE acc.totalmessage
      m2    == IF acc.buscount > 0
               THEN Append(m1, BusLine(acc.buscount, acc.tracecount, total))
               ELSE m1
  IN  [s EXCEPT !.tracecount = acc.tracecount, !.buscount = acc.buscount,
                !.totalmessage = Append(Append(m2, UsedAreaLine(s.area, total)),
                                        Fragment("fence", "", 0, 0, << >>))]

(***************************************************************************)
(* LogicIcons                                                              *)
(***************************************************************************)
\* _logicMap, lines 72-103
LogicMapTable ==
  << <<16762467, "and">>, <<14680064, "breakpoint">>, <<9633635, "buffer">>, <<8024100, "bus">>,
     <<2376058, "bus">>, <<2450042, "bus">>, <<4094500, "bus">>, <<8007014, "bus">>,
     <<8007460, "bus">>, <<16711745, "clock">>, <<6715534, "cross">>, <<3689799, "latchOff">>,
     <<6553503, "latchOn">>, <<16777215, "led">>, <<6580823, "mesh">>, <<16753152, "nand">>,
     <<3201535, "nor">>, <<16736906, "not">>, <<6550271, "or">>, <<15073024, "random">>,
     <<3032925, "read">>, <<16738048, "timer">>, <<5461362, "tunnel">>, <<16711871, "wireless1">>,
     <<16711855, "wireless2">>, <<16711839, "wireless3">>, <<16711823, "wireless4">>, <<5060670, "write">>,
     <<10879231, "xnor">>, <<11433215, "xor">> >>

\* The keys of _logicMap, which are the keys of _blendedImages (lines 117-122).
LogicColors == { LogicMapTable[k][1] : k \in 1..Len(LogicMapTable) }

\* Lines 106-109.  An icon image is known by its size: _resizedImages maps a
\* colour to the side of its resized icon.
NewIcons == [size |-> 0, resizedImages |-> << >>]

\* A resize that leaves the icons it finds in _resizedImages as they are.
resizeKeepingCached(icons, size) ==
  [size |-> size,
   resizedImages |-> [ c \in DOMAIN icons.resizedImages \cup LogicColors |->
                         IF c \in DOMAIN icons.resizedImages
                         THEN icons.resizedImages[c] ELSE size ]]

\* Lines 124-128: resize(size) stores, for every key of _blendedImages, the
\* icon resized to size x size.
resize(icons, size) ==
  [size |-> size,
   resizedImages |-> [ c \in DOMAIN icons.resizedImages \cup LogicColors |->
                         IF c \in LogicColors THEN size ELSE icons.resizedImages[c] ]]

\* Lines 131-134: the rows are logic[i:i+4*width]; row yItr is read at
\* row[xItr*4 : xItr*4+3] for xItr in range(len(row)).
RowCount(logic, width) == (Len(logic) + 4 * width - 1) \div (4 * width)
RowLen(logic, width, yItr) == Min({4 * width, Len(logic) - 4 * width * yItr})
ColorAt(logic, width, xItr, yItr) ==
  IntFromBytes(Slice(logic, 4 * width * yItr + 4 * xItr,
                     Min({4 * width * yItr + 4 * xItr + 3, 4 * width * (yItr + 1)})))

\* Line 135
HasIcon(color) == color \in LogicColors

\* A pixel of a PIL image: r, g, b, a, and the icon composited over it (its
\* colour key and its side; 0, 0 when there is none).  The glyph files are
\* not part of the source, so a composited pixel is known by its icon.
Pixel(r, g, b, a) == << r, g, b, a, 0, 0 >>
Composited(p, color, size) == << p[1], p[2], p[3], p[4], color, size >>

\* Lines 130-142: addIcons(logic, img, zoom).  Every pixel of img takes the
\* icon of the last (yItr, xItr), in the loops' order, whose icon covers it;
\* alpha_composite clips an icon at the image's border.  A colour with no
\* resized icon is a KeyError (line 138).  [exc, img]
addIcons(icons, logic, width, img, zoom) ==
  LET rows   == RowCount(logic, width)
      cache  == icons.resizedImages
      maxsz  == Max({0} \cup { cache[c] : c \in DOMAIN cache })
      Covers(xItr, yItr, X, Y) ==
        LET color == ColorAt(logic, width, xItr, yItr)
        IN  /\ HasIcon(color)
            /\ xItr * zoom <= X /\ X < xItr * zoom + cache[color]
            /\ yItr * zoom <= Y /\ Y < yItr * zoom + cache[color]
      Over(X, Y) ==
        { yx \in (Max({0, (Y - maxsz) \div zoom})..Min({rows - 1, Y \div zoom}))
                  \X (Max({0, (X - maxsz) \div zoom})..(X \div zoom)) :
            yx[2] < RowLen(logic, width, yx[1]) /\ Covers(yx[2], yx[1], X, Y) }
      Last(S) == CHOOSE yx \in S : \A o \in S : o[1] < yx[1] \/ (o[1] = yx[1] /\ o[2] <= yx[2])
      missing == \E yItr \in 0..(rows - 1) : \E xItr \in 0..(RowLen(logic, width, yItr) - 1) :
                   LET color == ColorAt(logic, width, xItr, yItr)
                   IN  HasIcon(color) /\ color \notin DOMAIN cache
  IN  IF missing
      THEN [exc |-> Exc("KeyError", "", 0), img |-> img]
      ELSE [exc |-> NoExc,
            img |-> [img EXCEPT !.px =
                       [ k \in 1..(img.w * img.h) |->
                           LET X == (k - 1) % img.w
                               Y == (k - 1) \div img.w
                               S == Over(X, Y)
                           IN  IF S = {} THEN img.px[k]
                               ELSE LET yx    == Last(S)
                                        color == ColorAt(logic, width, yx[2], yx[1])
                                    IN  Composited(img.px[k], color, cache[color]) ]]]

(***************************************************************************)
(* render                                                                  *)
(***************************************************************************)
TargetWidth == 1400
MaxZoom == 24
IconZoom == 6

\* The background colour of lines 302-305
Background == << 30, 36, 49, 255 >>

\* Lines 298-306: fillBackground(image, width, height).  [exc, image]
fillBackground(image, width, height) ==
  IF image.none
  THEN [exc |-> Exc("TypeError", "cannot convert 'NoneType' object to bytearray", 0),
        image |-> << >>]
  ELSE IF Len(image.data) < 4 * width * height
  THEN [exc |-> Exc("IndexError", "bytearray index out of range", 0), image |-> << >>]
  ELSE [exc |-> NoExc,
        image |-> [ k \in 1..Len(image.data) |->
                      LET offset == 4 * ((k - 1) \div 4)
                      IN  IF offset < 4 * width * height /\ image.data[offset + 4] = 0
                          THEN Background[k - offset]
                          ELSE image.data[k] ]]

\* Lines 308-326: zoomImage(image, width, height, zoom)
zoomImage(image, width, height, zoom) ==
  IF zoom = 1 THEN image
  ELSE LET stride    == 4 * width
           dststride == 4 * width * zoom
       IN  [ j \in 1..(4 * width * height * zoom * zoom) |->
               LET y == ((j - 1) \div dststride) \div zoom
                   x == (((j - 1) % dststride) \div 4) \div zoom
               IN  image[4 * x + y * stride + ((j - 1) % 4) + 1] ]

NoImage == [w |-> 0, h |-> 0, px |-> << >>]

\* Line 334: Image.frombytes("RGBA", (w, h), data).  [exc, img]
frombytes(w, h, data) ==
  IF Len(data) < 4 * w * h
  THEN [exc |-> Exc("ValueError", "not enough image data", 0), img |-> NoImage]
  ELSE [exc |-> NoExc,
        img |-> [w |-> w, h |-> h,
                 px |-> [ k \in 1..(w * h) |->
                            Pixel(data[4 * k - 3], data[4 * k - 2], data[4 * k - 1], data[4 * k]) ]]]

\* The zoom of the line commented out at 344: int(800 / bp.width)
SelectZoom800(width) ==
  LET zoom == 800 \div width
  IN  IF zoom < 1 THEN 1 ELSE IF zoom > 24 THEN 24 ELSE zoom

\* Lines 345-349
SelectZoom(width) ==
  LET zoom == TargetWidth \div width
  IN  IF zoom < 1 THEN 1 ELSE IF zoom > MaxZoom THEN MaxZoom ELSE zoom

\* Lines 329-331
SaveZoom(zoom) == IF zoom < 1 THEN 1 ELSE zoom

\* Lines 332-334: the canvas before any icon.  [exc, img]
BaseImage(logic, width, height, zoom) ==
  LET filled == fillBackground(logic, width, height)
  IN  IF filled.exc # NoExc THEN [exc |-> filled.exc, img |-> NoImage]
      ELSE frombytes(width * zoom, height * zoom,
                     zoomImage(filled.image, width, height, zoom))

\* The icons wanted only above the threshold.
OverlayAboveThreshold(zoom) == zoom > 6

\* Line 336
OverlayWanted(zoom) == zoom >= IconZoom

(***************************************************************************)
(* The bot: the stats and image commands                                   *)
(***************************************************************************)
\* The command invocations that may be in flight together.
Tasks == {1, 2}

VARIABLES
  cmd,        \* cmd[t]: "stats", "image", or "none" when task t is not invoked
  text,       \* text[t]: what extractBlueprintString returns: [some, s]
  pc,         \* pc[t]: where task t stands
  running,    \* the task that holds the event loop, 0 when it is free
  locals,     \* locals[t]: the local variables of parseBlueprint
  bp,         \* bp[t]: the Blueprint parseBlueprint returned
  exc,        \* exc[t]: the exception raised in task t, with the function raising it
  stats,      \* stats[t]: the local variables of getstats
  rend,       \* rend[t]: the local variables of render/saveImage: [zoom, pimage, calls]
  icons,      \* the LogicIcons object made in main(), shared by every command
  tempimage,  \* the contents of the file tempimage.png
  reply,      \* reply[t]: the command's totalmessage
  sent        \* sent[t]: what ctx.send has delivered for task t

vars == << cmd, text, pc, running, locals, bp, exc, stats, rend, icons, tempimage,
           reply, sent >>

NoRender == [zoom |-> 0, pimage |-> NoImage, calls |-> << >>]
NoRaise == [in |-> "", e |-> NoExc]
NotSent == [kind |-> "none", message |-> << >>, image |-> NoImage]

\* The running task keeps the event loop until its next await.
Sched(t) == running \in {0, t}

\* Task t raises e inside function f: control leaves for the command's except clause.
Raise(t, f, e) ==
  /\ exc' = [exc EXCEPT ![t] = [in |-> f, e |-> e]]
  /\ pc' = [pc EXCEPT ![t] = "raised"]
  /\ running' = t

\* Lines 410, 436: await extractBlueprintString(ctx, blueprint)
Extract(t) ==
  /\ pc[t] = "start" /\ Sched(t)
  /\ pc' = [pc EXCEPT ![t] = "extracted"]
  /\ running' = 0
  /\ UNCHANGED << cmd, text, locals, bp, exc, stats, rend, icons, tempimage, reply, sent >>

\* Lines 412-417, 438-443: no blueprint, or the call of getstats / render,
\* which both start by calling parseBlueprint.
Dispatch(t) ==
  /\ pc[t] = "extracted" /\ Sched(t)
  /\ running' = t
  /\ IF ~text[t].some
     THEN /\ reply' = [reply EXCEPT ![t] =
                         << Fragment("text", "No blueprint specified", 0, 0, << >>) >>]
          /\ pc' = [pc EXCEPT ![t] = "reply"]
     ELSE /\ pc' = [pc EXCEPT ![t] = "prefix"]
          /\ UNCHANGED reply
  /\ UNCHANGED << cmd, text, locals, bp, exc, stats, rend, icons, tempimage, sent >>

\* parseBlueprint, lines 149-157
ParsePrefixStep(t) ==
  /\ pc[t] = "prefix" /\ Sched(t)
  /\ LET r == ParsePrefix(text[t].s)
     IN  IF r.exc # NoExc
         THEN Raise(t, "parseBlueprint", r.exc) /\ UNCHANGED locals
         ELSE /\ locals' = [locals EXCEPT ![t] = [NoLocals EXCEPT !.blueprint = r.rest]]
              /\ pc' = [pc EXCEPT ![t] = "header"]
              /\ running' = t
              /\ UNCHANGED exc
  /\ UNCHANGED << cmd, text, bp, stats, rend, icons, tempimage, reply, sent >>

\* parseBlueprint, lines 159-174
ParseHeaderStep(t) ==
  /\ pc[t] = "header" /\ Sched(t)
  /\ LET r == ParseHeader(locals[t].blueprint)
     IN  IF r.exc # NoExc
         THEN Raise(t, "parseBlueprint", r.exc) /\ UNCHANGED locals
         ELSE /\ locals' = [locals EXCEPT ![t] = r.locals]
              /\ pc' = [pc EXCEPT ![t] = "block"]
              /\ running' = t
              /\ UNCHANGED exc
  /\ UNCHANGED << cmd, text, bp, stats, rend, icons, tempimage, reply, sent >>

\* parseBlueprint, lines 176-192: one iteration of the block loop
ParseBlockStep(t) ==
  /\ pc[t] = "block" /\ Sched(t)
  /\ MoreBlocks(locals[t])
  /\ LET r == ParseBlock(locals[t].blueprint, locals[t].curpos, locals[t].image)
     IN  /\ locals' = [locals EXCEPT ![t].curpos = r.curpos, ![t].image = r.image]
         /\ IF r.exc # NoExc
            THEN Raise(t, "parseBlueprint", r.exc)
            ELSE running' = t /\ UNCHANGED << pc, exc >>
  /\ UNCHANGED << cmd, text, bp, stats, rend, icons, tempimage, reply, sent >>

\* parseBlueprint, lines 194-201, and the return to getstats (line 205) or
\* render (line 343)
ParseReturn(t) ==
  /\ pc[t] = "block" /\ Sched(t)
  /\ ~MoreBlocks(locals[t])
  /\ bp' = [bp EXCEPT ![t] = MakeBlueprint(locals[t])]
  /\ pc' = [pc EXCEPT ![t] = IF cmd[t] = "stats" THEN "scan" ELSE "zoom"]
  /\ running' = t
  /\ UNCHANGED << cmd, text, locals, exc, stats, rend, icons, tempimage, reply, sent >>

\* getstats, lines 210-214: one iteration of the scan; len(None) is a TypeError
StatsScan(t) ==
  /\ pc[t] = "scan" /\ Sched(t)
  /\ LET image == bp[t].logicImage
         s     == stats[t]
     IN  IF image.none
         THEN /\ Raise(t, "getstats",
                       Exc("TypeError", "object of type 'NoneType' has no len()", 0))
              /\ UNCHANGED stats
         ELSE /\ s.i < Len(image.data)
              /\ LET r == ScanPixel(image.data, s.i, s.counts, s.area)
                 IN  IF r.exc # NoExc
                     THEN Raise(t, "getstats", r.exc) /\ UNCHANGED stats
                     ELSE /\ stats' = [stats EXCEPT ![t].i = s.i + 4,
                                                     ![t].counts = r.counts,
                                                     ![t].area = r.area]
                          /\ running' = t
                          /\ UNCHANGED << pc, exc >>
  /\ UNCHANGED << cmd, text, locals, bp, rend, icons, tempimage, reply, sent >>

\* getstats, lines 216-294, and line 417
StatsReport(t) ==
  /\ pc[t] = "scan" /\ Sched(t)
  /\ ~bp[t].logicImage.none
  /\ stats[t].i >= Len(bp[t].logicImage.data)
  /\ stats' = [stats EXCEPT ![t] = BuildReport(bp[t], stats[t])]
  /\ reply' = [reply EXCEPT ![t] = stats'[t].totalmessage]
  /\ pc' = [pc EXCEPT ![t] = "reply"]
  /\ running' = t
  /\ UNCHANGED << cmd, text, locals, bp, exc, rend, icons, tempimage, sent >>

\* render, lines 345-350, and saveImage, lines 329-331
RenderZoom(t) ==
  /\ pc[t] = "zoom" /\ Sched(t)
  /\ rend' = [rend EXCEPT ![t].zoom = SaveZoom(SelectZoom(bp[t].width))]
  /\ pc' = [pc EXCEPT ![t] = "base"]
  /\ running' = t
  /\ UNCHANGED << cmd, text, locals, bp, exc, stats, icons, tempimage, reply, sent >>

\* saveImage, lines 332-336
SaveImageBase(t) ==
  /\ pc[t] = "base" /\ Sched(t)
  /\ LET r == BaseImage(bp[t].logicImage, bp[t].width, bp[t].height, rend[t].zoom)
     IN  IF r.exc # NoExc
         THEN Raise(t, "render", r.exc) /\ UNCHANGED rend
         ELSE /\ rend' = [rend EXCEPT ![t].pimage = r.img]
              /\ pc' = [pc EXCEPT ![t] = IF OverlayWanted(rend[t].zoom) THEN "resize" ELSE "save"]
              /\ running' = t
              /\ UNCHANGED exc
  /\ UNCHANGED << cmd, text, locals, bp, stats, icons, tempimage, reply, sent >>

\* saveImage, line 338
IconsResize(t) ==
  /\ pc[t] = "resize" /\ Sched(t)
  /\ icons' = resize(icons, rend[t].zoom)
  /\ rend' = [rend EXCEPT ![t].calls = Append(@, << "resize", rend[t].zoom >>)]
  /\ pc' = [pc EXCEPT ![t] = "addIcons"]
  /\ running' = t
  /\ UNCHANGED << cmd, text, locals, bp, exc, stats, tempimage, reply, sent >>

\* saveImage, lines 337 and 339
IconsAdd(t) ==
  /\ pc[t] = "addIcons" /\ Sched(t)
  /\ LET r == addIcons(icons, bp[t].logicImage.data, bp[t].width, rend[t].pimage, rend[t].zoom)
     IN  /\ rend' = [rend EXCEPT ![t].pimage = r.img,
                                 ![t].calls = Append(@, << "addIcons", rend[t].zoom >>)]
         /\ IF r.exc # NoExc
            THEN Raise(t, "render", r.exc)
            ELSE /\ pc' = [pc EXCEPT ![t] = "save"]
                 /\ running' = t
                 /\ UNCHANGED exc
  /\ UNCHANGED << cmd, text, locals, bp, stats, icons, tempimage, reply, sent >>

\* saveImage, line 341: pimage.save("tempimage.png")
ImageSave(t) ==
  /\ pc[t] = "save" /\ Sched(t)
  /\ tempimage' = rend[t].pimage
  /\ pc' = [pc EXCEPT ![t] = "file"]
  /\ running' = t
  /\ UNCHANGED << cmd, text, locals, bp, exc, stats, rend, icons, reply, sent >>

\* Line 444, first half: discord.File("tempimage.png") names the file and
\* ctx.send is awaited; the upload reads the file after the event loop has
\* been given up.
SendFileBegin(t) ==
  /\ pc[t] = "file" /\ Sched(t)
  /\ pc' = [pc EXCEPT ![t] = "sending"]
  /\ running' = 0
  /\ UNCHANGED << cmd, text, locals, bp, exc, stats, rend, icons, tempimage, reply, sent >>

\* Line 444, second half: the upload reads tempimage.png and the await ends;
\* totalmessage is empty at line 448.
SendFileEnd(t) ==
  /\ pc[t] = "sending" /\ Sched(t)
  /\ sent' = [sent EXCEPT ![t] = [kind |-> "file", message |-> << >>, image |-> tempimage]]
  /\ pc' = [pc EXCEPT ![t] = "done"]
  /\ running' = 0
  /\ UNCHANGED << cmd, text, locals, bp, exc, stats, rend, icons, tempimage, reply >>

\* Lines 418-419, 445-446: except Exception as x: totalmessage.append(str(x))
Except(t) ==
  /\ pc[t] = "raised" /\ Sched(t)
  /\ reply' = [reply EXCEPT ![t] =
                 Append(@, Fragment("error", exc[t].e.text, exc[t].e.arg, 0, << >>))]
  /\ pc' = [pc EXCEPT ![t] = "reply"]
  /\ running' = t
  /\ UNCHANGED << cmd, text, locals, bp, exc, stats, rend, icons, tempimage, sent >>

\* Lines 421, 448-449: await ctx.send(" ".join(totalmessage))
Reply(t) ==
  /\ pc[t] = "reply" /\ Sched(t)
  /\ sent' = [sent EXCEPT ![t] = [kind |-> "message", message |-> reply[t], image |-> NoImage]]
  /\ pc' = [pc EXCEPT ![t] = "done"]
  /\ running' = 0
  /\ UNCHANGED << cmd, text, locals, bp, exc, stats, rend, icons, tempimage, reply >>

(***************************************************************************)
(* The inputs: blueprint texts built from a header, blocks and pixels      *)
(***************************************************************************)
\* At most this many layer blocks follow the header.
MaxBlocks == 2
\* The logic images whose pixels are all enumerated are this wide at most.
MaxPixels == 2

U24(n) == << n \div 65536, (n \div 256) % 256, n % 256 >>
U32(n) == << n \div 16777216, (n \div 65536) % 256, (n \div 256) % 256, n % 256 >>

Checksum == << 1, 35, 69, 103, 137, 171 >>

Header(version, width, height) == U24(version) \o Checksum \o U32(width) \o U32(height)

Block(blockSize, layerID, imageSize, payload) ==
  U32(blockSize) \o U32(layerID) \o U32(imageSize) \o payload

Compress(data) == << ZMagic >> \o data

\* A well-formed logic layer block holding data
LogicBlock(data) == Block(MinBlockSize + 1 + Len(data), 0, Len(data), Compress(data))

\* base64.b64encode
b64encode(b) ==
  [ j \in 1..(4 * ((Len(b) + 2) \div 3)) |->
      LET q  == 3 * ((j - 1) \div 4)
          b0 == b[q + 1]
          b1 == IF q + 2 <= Len(b) THEN b[q + 2] ELSE 0
          b2 == IF q + 3 <= Len(b) THEN b[q + 3] ELSE 0
      IN  CASE (j - 1) % 4 = 0 -> B64Alphabet[(b0 \div 4) + 1]
            [] (j - 1) % 4 = 1 -> B64Alphabet[(b0 % 4) * 16 + (b1 \div 16) + 1]
            [] (j - 1) % 4 = 2 -> IF q + 2 > Len(b) THEN "="
                                  ELSE B64Alphabet[(b1 % 16) * 4 + (b2 \div 64) + 1]
            [] OTHER           -> IF q + 3 > Len(b) THEN "="
                                  ELSE B64Alphabet[(b2 % 64) + 1] ]

PxAnd == << 255, 198, 99, 255 >>
PxTrace1 == << 42, 53, 65, 255 >>
PxBus1 == << 122, 47, 36, 255 >>
PxEmpty == << 0, 0, 0, 0 >>
\* transparent, with the RGB of the And gate
PxClearAnd == << 255, 198, 99, 0 >>
\* opaque, in neither table
PxOther == << 1, 2, 3, 255 >>

Palette == << PxAnd, PxEmpty, PxBus1, PxTrace1, PxClearAnd, PxOther >>

\* The bytes of a sequence of pixels
Flatten(pixels) ==
  [ k \in 1..(4 * Len(pixels)) |-> pixels[((k - 1) \div 4) + 1][((k - 1) % 4) + 1] ]

\* n pixels running through the palette
Stripe(n) == [ k \in 1..n |-> Palette[((k - 1) % Len(Palette)) + 1] ]

RECURSIVE Concat(_)
Concat(ss) == IF ss = << >> THEN << >> ELSE Head(ss) \o Concat(Tail(ss))

\* What may follow the header of a blueprint of n pixels: well-formed and
\* malformed blocks.
BlockKinds(n) ==
  LET data == Flatten(Stripe(n))
  IN  { LogicBlock(data),                                       \* the logic layer
        Block(MinBlockSize + 2, 1, 0, << 7, 7 >>),              \* another layer
        Block(4, 1, 0, << >>),                                  \* undersized
        Block(0, 0, 0, << >>),                                  \* size zero
        Block(MinBlockSize + 2, 0, 2, << 9, 9 >>),              \* not a compressed frame
        Block(MinBlockSize + 1 + Len(data), 0, Len(data) + 4, Compress(data)),  \* wrong declared size
        LogicBlock(SubSeq(data, 1, Len(data) - 4)),             \* one pixel short
        LogicBlock(data \o PxOther),                            \* one pixel long
        LogicBlock(data \o << 5 >>),                            \* one byte long
        Block(MinBlockSize + 1 + Len(data) + 20, 0, Len(data), Compress(data)), \* size past the end
        << 0, MinBlockSize >>,                                  \* two bytes of a block header
        << 0, 0, 0, MinBlockSize, 0, 0, 0, 1 >> }               \* eight bytes of a block header

BlockSeqs(n) == UNION { [1..k -> BlockKinds(n)] : k \in 0..MaxBlocks }

StructureBodies ==
  UNION { { Header(0, d[1], d[2]) \o Concat(bs) : bs \in BlockSeqs(d[1] * d[2]) } :
          d \in { << 1, 1 >>, << 1, 2 >> } }
  \cup { << >>, Header(0, 1, 1), SubSeq(Header(0, 1, 1), 1, 10) }
  \cup { Header(h[1], h[2], h[3]) \o LogicBlock(Flatten(Stripe(1))) :
         h \in { << 1, 1, 1 >>, << 0, 0, 5 >>, << 0, 5, 0 >>, << 1, 0, 0 >> } }

\* Every image of up to MaxPixels pixels in a row, and of two rows of one
PixelBodies ==
  UNION { { Header(0, w, 1) \o LogicBlock(Flatten(p)) :
            p \in [1..w -> { Palette[k] : k \in 1..Len(Palette) }] } : w \in 1..MaxPixels }
  \cup { Header(0, 1, 2) \o LogicBlock(Flatten(p)) :
         p \in [1..2 -> { PxAnd, PxEmpty, PxClearAnd }] }

\* Widths around the zoom thresholds; the wide images are striped
WideWidths == { 233, 234, 701, 1401 }
WideBodies == { Header(0, w, 1) \o LogicBlock(Flatten(Stripe(w))) : w \in WideWidths }
\* Widths whose blueprint holds a single pixel
ZoomWidths == { 3, 58, 59, 116, 117, 1400, 70000 }
ZoomBodies == { Header(0, w, 1) \o LogicBlock(Flatten(Stripe(1))) : w \in ZoomWidths }

Chars(body) == b64encode(body)

Fence == << Backtick, Backtick, Backtick >>

TextHeads ==
  { PrefixVCB, PrefixBVCB, Fence \o PrefixVCB,
    << "V", Apostrophe, "C", "B", "+" >>,
    << "X", "Y", "Z", "+" >>, << >>, << "V", "C", "B" >>,
    PrefixVCB \o PrefixBVCB, PrefixBVCB \o PrefixVCB,
    << Backtick, Backtick, Apostrophe, Backtick >> \o PrefixVCB,
    << Backtick >> \o PrefixVCB }

TextTails == { << >>, Fence, << "%" >>, << NonAscii >> }

GoodBody == Header(0, 1, 1) \o LogicBlock(Flatten(<< PxAnd >>))

\* Heads and tails around a good payload, whole and with its last character cut
HeadTailTexts ==
  { h \o e \o t : h \in TextHeads, t \in TextTails,
                  e \in { Chars(GoodBody), SubSeq(Chars(GoodBody), 1, Len(Chars(GoodBody)) - 1) } }

Plain(body) == PrefixVCB \o Chars(body)

Job(c, s) == [cmd |-> c, text |-> [some |-> TRUE, s |-> s]]
NoJob == [cmd |-> "none", text |-> [some |-> FALSE, s |-> << >>]]

\* The commands a single invocation is checked on
SingleJobs ==
  { Job(c, s) : c \in {"stats", "image"},
                s \in HeadTailTexts \cup { Plain(b) : b \in StructureBodies \cup PixelBodies } }
  \cup { Job("image", Plain(b)) : b \in WideBodies \cup ZoomBodies }
  \cup { [cmd |-> c, text |-> [some |-> FALSE, s |-> << >>]] : c \in {"stats", "image"} }

\* The commands that are checked two at a time: two images at the same zoom,
\* two at different zooms, an image beside a failure and beside a stats
\* command.
JobAnd == Job("image", Plain(GoodBody))
JobBus == Job("image", Plain(Header(0, 2, 1) \o LogicBlock(Flatten(<< PxBus1, PxEmpty >>))))
JobWide == Job("image", Plain(Header(0, 233, 1) \o LogicBlock(Flatten(Stripe(233)))))
JobBad == Job("image", << "X", "Y", "Z", "+" >>)
JobStats == Job("stats", Plain(GoodBody))

PairJobs ==
  { << JobAnd, JobAnd >>, << JobAnd, JobBus >>, << JobAnd, JobWide >>,
    << JobAnd, JobBad >>, << JobBus, JobStats >>, << JobBad, JobStats >> }

Assignments ==
  { [t \in Tasks |-> IF t = 1 THEN j ELSE NoJob] : j \in SingleJobs }
  \cup { [t \in Tasks |-> j[t]] : j \in PairJobs }

Init ==
  \E a \in Assignments :
    /\ cmd = [t \in Tasks |-> a[t].cmd]
    /\ text = [t \in Tasks |-> a[t].text]
    /\ pc = [t \in Tasks |-> IF a[t].cmd = "none" THEN "done" ELSE "start"]
    /\ running = 0
    /\ locals = [t \in Tasks |-> NoLocals]
    /\ bp = [t \in Tasks |-> NoBlueprint]
    /\ exc = [t \in Tasks |-> NoRaise]
    /\ stats = [t \in Tasks |-> NoStats]
    /\ rend = [t \in Tasks |-> NoRender]
    /\ icons = NewIcons
    /\ tempimage = NoImage
    /\ reply = [t \in Tasks |-> << >>]
    /\ sent = [t \in Tasks |-> NotSent]

Next ==
  \E t \in Tasks :
    \/ Extract(t)
    \/ Dispatch(t)
    \/ ParsePrefixStep(t)
    \/ ParseHeaderStep(t)
    \/ ParseBlockStep(t)
    \/ ParseReturn(t)
    \/ StatsScan(t)
    \/ StatsReport(t)
    \/ RenderZoom(t)
    \/ SaveImageBase(t)
    \/ IconsResize(t)
    \/ IconsAdd(t)
    \/ ImageSave(t)
    \/ SendFileBegin(t)
    \/ SendFileEnd(t)
    \/ Except(t)
    \/ Reply(t)

Spec == Init /\ [][Next]_vars

(***************************************************************************)
(* The claims                                                              *)
(***************************************************************************)
\* parseBlueprint has returned in task t / has raised in task t
Decoded(t) == bp[t].made
DecodeFailed(t) == exc[t].in = "parseBlueprint"

\* C1: every Blueprint that parseBlueprint returns holds a logic image, and
\* its length is exactly width * height * 4; an input whose logic layer has
\* another length, or that has no logic layer, makes parseBlueprint fail.
C1_LogicImageHasAreaLength ==
  \A t \in Tasks :
    Decoded(t) => /\ ~bp[t].logicImage.none
                  /\ Len(bp[t].logicImage.data) = bp[t].width * bp[t].height * 4

\* C2: whatever makes parseBlueprint fail, the exception it raises is an
\* InvalidBlueprintException; no other kind of exception leaves it.
C2_OnlyInvalidBlueprintEscapes ==
  \A t \in Tasks : DecodeFailed(t) => exc[t].e.kind = "InvalidBlueprintException"

\* The text as parseBlueprint reads it, and what it hands to base64.
C3_Text(t) == RemoveApostrophes(RemoveFences(text[t].s))
C3_HasPrefix(s) == StartsWith(s, PrefixVCB) \/ StartsWith(s, PrefixBVCB)
C3_Payload(s) ==
  LET s1 == IF StartsWith(s, PrefixVCB) THEN DropFirst(s, 4) ELSE s
  IN  IF StartsWith(s1, PrefixBVCB) THEN DropFirst(s1, 5) ELSE s1
C3_BlockSize(b, pos) == IntFromBytes(Slice(b, pos, pos + 4))

\* The first position with a block size under 12 among those the cursor
\* visits: the chain of block sizes from pos, up to the position stop where
\* the cursor stands; -1 when there is none.
RECURSIVE C3_FirstUndersized(_, _, _)
C3_FirstUndersized(b, pos, stop) ==
  IF pos >= Len(b) \/ pos > stop THEN -1
  ELSE IF C3_BlockSize(b, pos) < 12 THEN pos
  ELSE C3_FirstUndersized(b, pos + C3_BlockSize(b, pos), stop)

C3_Returned(t) == bp[t].made /\ pc[t] \in {"scan", "zoom"}
C3_Failed(t) == pc[t] = "raised" /\ DecodeFailed(t)

\* C3: parseBlueprint returns a Blueprint only if the text, its fences and
\* apostrophes removed, starts with VCB+ or bVCB+, the version is 0, the area
\* is not 0 and every block the cursor visits has a block size of 12 or more;
\* when a check fails it raises the cause of the first failed check, in the
\* order prefix, base64, version, zero area, undersized block.
C3_FirstFailedCheckIsReported ==
  \A t \in Tasks :
    (C3_Returned(t) \/ C3_Failed(t)) =>
      LET s       == C3_Text(t)
          dec     == b64decode(C3_Payload(s))
          b       == dec.bytes
          version == IntFromBytes(Slice(b, 0, 3))
          area    == IntFromBytes(Slice(b, 9, 13)) * IntFromBytes(Slice(b, 13, 17))
          e       == exc[t].e
      IN  IF ~C3_HasPrefix(s)
          THEN C3_Failed(t)
               /\ e = InvalidBlueprintException("Invalid vcb blueprint - header error", 0)
          ELSE IF ~dec.ok
          THEN C3_Failed(t)
               /\ e = InvalidBlueprintException("Invalid vcb blueprint - base64 error", 0)
          ELSE IF version # 0
          THEN C3_Failed(t)
               /\ e = InvalidBlueprintException(
                        "Invalid vcb blueprint - unexpected version number: ", version)
          ELSE IF area = 0
          THEN C3_Failed(t)
               /\ e = InvalidBlueprintException("Invalid vcb blueprint - blueprint is 0x0", 0)
          ELSE LET p == C3_FirstUndersized(b, 17, locals[t].curpos)
               IN  /\ C3_Returned(t) => p = -1 /\ locals[t].curpos >= Len(b)
                   /\ (C3_Failed(t) /\ e.kind = "InvalidBlueprintException") =>
                        /\ p = locals[t].curpos
                        /\ e = InvalidBlueprintException(
                                 "Invalid vcb blueprint - invalid layer block size: ",
                                 C3_BlockSize(b, p))
                   /\ (C3_Failed(t) /\ e.kind # "InvalidBlueprintException") => p = -1

\* An undersized block is reported behind a block the cursor has passed.
C3_UndersizedSecondBlock ==
  \E t \in Tasks :
    /\ C3_Failed(t)
    /\ exc[t].e.text = "Invalid vcb blueprint - invalid layer block size: "
    /\ locals[t].curpos > 17

\* C4: for every Blueprint parseBlueprint returns, getstats completes and
\* returns its report; it raises nothing while it scans the logic image.
C4_GetstatsNeverRaises ==
  \A t \in Tasks : Decoded(t) => exc[t].in # "getstats"

\* C5: every "<Name> pixels: <count> (<percent>%)" fragment of the report, the
\* Trace, Bus and Used area lines included, carries
\* percent = floor(100 * count / (width * height) + 0.5) of its own count.
C5_PercentIsOfTheCountShown ==
  \A t \in Tasks : \A k \in 1..Len(reply[t]) :
    reply[t][k].tag \in {"pixels", "used"} =>
      reply[t][k].pct = (200 * reply[t][k].n + bp[t].width * bp[t].height)
                          \div (2 * bp[t].width * bp[t].height)

\* getstats has scanned the whole logic image of task t and returned.
C6_Scanned(t) == cmd[t] = "stats" /\ bp[t].made /\ pc[t] = "reply" /\ exc[t].in = ""
C6_Transparent(data) ==
  Cardinality({ k \in 0..((Len(data) \div 4) - 1) : data[4 * k + 4] = 0 })
RECURSIVE C6_Sum(_, _)
C6_Sum(counts, S) ==
  IF S = {} THEN 0
  ELSE LET c == CHOOSE c \in S : TRUE IN counts[c] + C6_Sum(counts, S \ {c})

\* C6: after the scan of a decoded Blueprint the per-colour counts of opaque
\* pixels sum to the used area, and the used area plus the number of fully
\* transparent pixels is width * height.
C6_AreaRoundTrip ==
  \A t \in Tasks :
    C6_Scanned(t) =>
      /\ C6_Sum(stats[t].counts, DOMAIN stats[t].counts) = stats[t].area
      /\ stats[t].area + C6_Transparent(bp[t].logicImage.data) = bp[t].width * bp[t].height

\* C7: two image commands that interleave at their awaits each send the
\* raster rendered from their own blueprint, never the other command's.
C7_SendsOwnRaster ==
  \A t \in Tasks : sent[t].kind = "file" => sent[t].image = rend[t].pimage

\* C8: addIcons with zoom z runs right after resize(z) of the same render, no
\* other resize in between, and when the icons are composited every entry of
\* _resizedImages has side z; the cache never holds two sizes.
C8_CompositeFollowsItsResize ==
  /\ \A t \in Tasks :
       pc[t] = "addIcons" =>
         /\ running = t
         /\ rend[t].calls = << << "resize", rend[t].zoom >> >>
         /\ icons.size = rend[t].zoom
         /\ DOMAIN icons.resizedImages = LogicColors
         /\ \A c \in LogicColors : icons.resizedImages[c] = rend[t].zoom
  /\ \A t \in Tasks : \A k \in 1..Len(rend[t].calls) :
       rend[t].calls[k][1] = "addIcons" =>
         k > 1 /\ rend[t].calls[k - 1] = << "resize", rend[t].calls[k][2] >>
  /\ \A c, d \in DOMAIN icons.resizedImages :
       icons.resizedImages[c] = icons.resizedImages[d]

\* A render is about to composite after another render used another zoom.
C8_SecondRenderOtherZoom ==
  \E t, u \in Tasks :
    /\ pc[t] = "addIcons"
    /\ Len(rend[u].calls) = 2
    /\ rend[u].zoom # rend[t].zoom

\* C9: for every decoded width the zoom render selects is in 1..24 and is
\* floor(1400 / width) clamped to 1..24; width 1 gives 24 and a width over
\* 1400 gives 1.
C9_ZoomIsClampedQuotient ==
  \A t \in Tasks :
    (cmd[t] = "image" /\ bp[t].made /\ pc[t] # "zoom") =>
      LET z == rend[t].zoom
          w == bp[t].width
      IN  /\ z \in 1..24
          /\ z * w <= 1400 \/ z = 1
          /\ (z + 1) * w > 1400 \/ z = 24
          /\ w = 1 => z = 24
          /\ w > 1400 => z = 1

\* A width over 1400 has had its zoom selected.
C9_WiderThanTarget ==
  \E t \in Tasks :
    cmd[t] = "image" /\ bp[t].made /\ pc[t] = "base" /\ bp[t].width > 1400 /\ rend[t].zoom = 1

\* The pixel at index k of the canvas render makes from a logic image: the
\* nearest source pixel, the background where that one is fully transparent.
C10_Upscaled(data, w, z, k) ==
  LET X == (k - 1) % (w * z)
      Y == (k - 1) \div (w * z)
      o == 4 * ((X \div z) + (Y \div z) * w)
  IN  IF data[o + 4] = 0 THEN << 30, 36, 49, 255, 0, 0 >>
      ELSE << data[o + 1], data[o + 2], data[o + 3], data[o + 4], 0, 0 >>

\* C10: render calls resize and addIcons if and only if the zoom is 6 or
\* more; below 6 the raster it writes is the logic image, background filled
\* and upscaled to the nearest neighbour, with no icon on it.
C10_OverlayIffZoomAtLeastSix ==
  \A t \in Tasks :
    /\ rend[t].calls # << >> => rend[t].zoom >= 6
    /\ pc[t] = "file" =>
         LET z    == rend[t].zoom
             w    == bp[t].width
             h    == bp[t].height
             data == bp[t].logicImage.data
         IN  /\ z >= 6 <=> rend[t].calls = << << "resize", z >>, << "addIcons", z >> >>
             /\ z < 6 <=> rend[t].calls = << >>
             /\ z < 6 => tempimage = [w |-> w * z, h |-> h * z,
                                      px |-> [ k \in 1..(w * z * h * z) |->
                                                 C10_Upscaled(data, w, z, k) ]]
             /\ z >= 6 => \A x \in 0..(w - 1) : \A y \in 0..(h - 1) :
                            LET color == IntFromBytes(Slice(data, 4 * (x + y * w),
                                                            4 * (x + y * w) + 3))
                                p     == tempimage.px[(y * z) * (w * z) + x * z + 1]
                            IN  IF color \in LogicColors
                                THEN p[5] = color /\ p[6] = z
                                ELSE p[5] = 0 /\ p[6] = 0

\* A raster upscaled below the icon threshold has been written.
C10_UpscaledBelowThreshold ==
  \E t \in Tasks :
    /\ pc[t] = "file" /\ rend[t].zoom \in 2..5
    /\ tempimage = rend[t].pimage /\ tempimage.px # << >>

\* The indices of the pixels of a logic image that are not fully transparent.
C11_Opaque(data) == { k \in 0..((Len(data) \div 4) - 1) : data[4 * k + 4] > 0 }

\* C11: a fully transparent pixel (alpha 0) is never classified, whatever its
\* RGB bytes: getstats counts it under no colour and not in the used area,
\* and addIcons puts no icon at its position.
C11_TransparentNeverClassified ==
  \A t \in Tasks :
    /\ \A c \in DOMAIN stats[t].counts : c[4] # 0
    /\ C6_Scanned(t) => stats[t].area = Cardinality(C11_Opaque(bp[t].logicImage.data))
    /\ pc[t] = "file" =>
         LET z    == rend[t].zoom
             w    == bp[t].width
             h    == bp[t].height
             data == bp[t].logicImage.data
         IN  \A x \in 0..(w - 1) : \A y \in 0..(h - 1) :
               data[4 * (x + y * w) + 4] = 0 =>
                 LET p == tempimage.px[(y * z) * (w * z) + x * z + 1]
                 IN  p[5] = 0 /\ p[6] = 0

\* The block loop, run from cursor pos, is over (parseBlueprint has left it
\* for its return or with an exception) within fuel iterations.
RECURSIVE C12_EndsWithin(_, _, _, _)
C12_EndsWithin(b, pos, image, fuel) ==
  IF pos >= Len(b) THEN TRUE
  ELSE IF fuel = 0 THEN FALSE
  ELSE LET r == ParseBlock(b, pos, image)
       IN  r.exc # NoExc \/ C12_EndsWithin(b, r.curpos, r.image, fuel - 1)

\* C12: the block loop of parseBlueprint terminates on every buffer: every
\* iteration that does not raise moves the cursor forward by its block size,
\* which is 12 or more, so from a cursor at pos the loop runs at most
\* (len(blueprint) - pos) / 12 iterations, rounded up, and parseBlueprint then
\* returns its Blueprint or has raised, whatever the block sizes.
C12_BlockLoopTerminates ==
  \A t \in Tasks :
    pc[t] = "block" =>
      LET b   == locals[t].blueprint
          pos == locals[t].curpos
          r   == ParseBlock(b, pos, locals[t].image)
      IN  /\ MoreBlocks(locals[t]) =>
                \/ r.exc # NoExc
                \/ /\ r.curpos >= pos + 12
                   /\ r.curpos = pos + IntFromBytes(Slice(b, pos, pos + 4))
          /\ C12_EndsWithin(b, pos, locals[t].image, (Len(b) - pos + 11) \div 12)

\* parseBlueprint has returned after a block size that leads past the end of
\* the buffer.
C12_ReturnedPastTheEnd ==
  \E t \in Tasks :
    /\ Decoded(t) /\ pc[t] \in {"scan", "zoom"}
    /\ locals[t].curpos > Len(locals[t].blueprint)

====
